---- MODULE Spec2Model ----
(***************************************************************************)
(* Model of src/task_processor.py: the task loader, the history           *)
(* normalizer, the retrying task runner (process_task) and the sequential *)
(* orchestrator (process_all_tasks) with its incremental persistence.     *)
(*                                                                         *)
(* Spec           : one run of process_all_tasks over a task document.    *)
(* SpecTask       : one call of process_task(task, max_attempts).         *)
(* SpecNormalizer : serialize_history on its own, once and twice.         *)
(* SpecConcurrent : several process_task calls interleaved at awaits.     *)
(***************************************************************************)
EXTENDS Integers, Sequences, FiniteSets, TLC

VARIABLES
    doc,          \* the task document handed to load_tasks
    tasks,        \* process_all_tasks: the loaded task list
    idx,          \* process_all_tasks: 1-based position of the for loop
    results,      \* process_all_tasks: the results list
    file,         \* task_results.json on disk
    durable,      \* history: the last list completely written to the file
    started,      \* history: positions whose process_task call was made
    pc,           \* control position
    task,         \* process_task: its task argument
    max_attempts, \* process_task: its max_attempts argument
    attempt,      \* process_task: local attempt
    browser,      \* process_task: local browser (0 is None, else an instance id)
    e,            \* process_task: the exception bound by "except Exception as e"
    history,      \* process_task: the value agent.run() returned
    ret,          \* how the process_task call ended
    created,      \* number of Browser instances created by this call
    closeCalls,   \* per Browser instance, the number of close() calls made
    closeFailures, \* history: number of close() calls of this call that raised
    runLog,       \* history: outcome of every agent.run() of this call
    events,       \* history: "attempt" / "sleep" marks of this call, in order
    runBrowsers,  \* history: the Browser instance handed to each agent.run()
    clock,        \* time spent sleeping in this call
    normalized,   \* what serialize_history(history) gave, called on its own
    renormalized, \* what serialize_history gave on its own result
    calls,        \* the frames of the process_task calls run side by side
    instances,    \* number of Browser objects those calls have constructed
    openB         \* the Browser objects constructed and not yet closed

vars == <<doc, tasks, idx, results, file, durable, started, pc, task,
          max_attempts, attempt, browser, e, history, ret, created,
          closeCalls, closeFailures, runLog, events, runBrowsers, clock,
          normalized, renormalized, calls, instances, openB>>

batchVars == <<doc, tasks, idx, results, file, durable, started>>
callVars  == <<task, max_attempts, attempt, browser, e, history, ret,
               created, closeCalls, closeFailures, runLog, events,
               runBrowsers, clock>>
serVars   == <<normalized, renormalized>>
concVars  == <<calls, instances, openB>>

(***************************************************************************)
(* Bounds                                                                  *)
(***************************************************************************)
MaxTasks == 2
MaxK == 3
MaxHist == 2
NCalls == 2

(***************************************************************************)
(* Python values and their text form (str)                                 *)
(***************************************************************************)
VStr(s) == [t |-> "str", s |-> s]
VInt(n) == [t |-> "int", n |-> n]
VNone == [t |-> "none"]

Digit == [d \in 0..9 |-> CASE d = 0 -> "0" [] d = 1 -> "1" [] d = 2 -> "2"
                           [] d = 3 -> "3" [] d = 4 -> "4" [] d = 5 -> "5"
                           [] d = 6 -> "6" [] d = 7 -> "7" [] d = 8 -> "8"
                           [] OTHER -> "9"]

\* str(v) as serialize_history applies it to each component.
Str(v) == CASE v.t = "str" -> v.s
            [] v.t = "int" -> Digit[v.n]
            [] OTHER -> "None"

(***************************************************************************)
(* serialize_history                                                       *)
(***************************************************************************)
Ok(v) == [ok |-> TRUE, val |-> v]
Raised(m) == [ok |-> FALSE, err |-> m]

HNone == [k |-> "none"]
HScalar == [k |-> "scalar"]
HSeq(items) == [k |-> "seq", items |-> items]
Tuple(vals) == [k |-> "tuple", vals |-> vals]
Obj(attrs) == [k |-> "obj", attrs |-> attrs]
\* An element that is no tuple and has none of the four attributes: a dict,
\* a character of a text answer, a number.
Plain(v) == [k |-> "plain", v |-> v]

\* Faulty variant: the attribute is looked up under no name at all.
GetAttrDefaultOnly(item, name, default) == default

\* getattr(item, name, default)
GetAttr(item, name, default) ==
    IF item.k = "obj" /\ name \in DOMAIN item.attrs THEN item.attrs[name]
    ELSE default

\* "action, input_val, output, timestamp = item" raises unless the arity is 4.
UnpackError(item) ==
    IF Len(item.vals) < 4 THEN "not enough values to unpack"
    ELSE "too many values to unpack"

\* Faulty variant: the tuple is unpacked in the wrong order.
EntrySwapped(item) ==
    IF item.k = "tuple"
    THEN [action |-> Str(item.vals[1]), input |-> Str(item.vals[3]),
          output |-> Str(item.vals[2]), timestamp |-> Str(item.vals[4])]
    ELSE [action |-> Str(GetAttr(item, "action", VStr("unknown"))),
          input |-> Str(GetAttr(item, "input", VStr(""))),
          output |-> Str(GetAttr(item, "output", VStr(""))),
          timestamp |-> Str(GetAttr(item, "timestamp", VStr("")))]

Entry(item) ==
    IF item.k = "tuple"
    THEN [action |-> Str(item.vals[1]), input |-> Str(item.vals[2]),
          output |-> Str(item.vals[3]), timestamp |-> Str(item.vals[4])]
    ELSE [action |-> Str(GetAttr(item, "action", VStr("unknown"))),
          input |-> Str(GetAttr(item, "input", VStr(""))),
          output |-> Str(GetAttr(item, "output", VStr(""))),
          timestamp |-> Str(GetAttr(item, "timestamp", VStr("")))]

RECURSIVE SerializeLoop(_, _)
SerializeLoop(items, serialized) ==
    IF items = << >> THEN Ok(serialized)
    ELSE IF Head(items).k = "tuple" /\ Len(Head(items).vals) # 4
         THEN Raised(UnpackError(Head(items)))
         ELSE SerializeLoop(Tail(items), Append(serialized, Entry(Head(items))))

serialize_history(h) ==
    IF h.k = "none" THEN Ok(<< >>)
    ELSE IF h.k = "scalar" THEN Raised("object is not iterable")
    ELSE SerializeLoop(h.items, << >>)

\* The list serialize_history returned, handed to it again: its elements
\* are dicts, which carry their fields as keys, not as attributes.
AsHistory(serialized) ==
    HSeq([i \in 1..Len(serialized) |-> Plain(serialized[i])])

\* The values serialize_history is called with.
Step4b == Tuple(<<VStr("type"), VStr("q"), VInt(7), VNone>>)
Step5 == Tuple(<<VStr("a"), VStr("b"), VStr("c"), VStr("d"), VStr("e")>>)
Step2 == Tuple(<<VStr("history"), VNone>>)
Step4 == Tuple(<<VStr("click"), VInt(1), VNone, VStr("t0")>>)
ObjFull == Obj([action |-> VStr("go"), input |-> VStr("url"),
                output |-> VNone, timestamp |-> VInt(3)])
ObjPartial == Obj([input |-> VStr("q"), timestamp |-> VInt(5)])
ObjAction == Obj([action |-> VInt(0)])
Items == {Step4, Step4b, Step2, Step5, ObjFull, ObjPartial, ObjAction,
          Plain(VStr("d"))}
HistInputs ==
    {HNone, HScalar}
    \cup UNION {{HSeq(items) : items \in [1..n -> Items]} : n \in 0..MaxHist}

(***************************************************************************)
(* Tasks and the environment                                               *)
(***************************************************************************)
FullTask == [website |-> "example.com", search_prompt |-> "search",
             response_string |-> "found", screenshot_dir |-> "shots",
             save_path |-> "out"]

Without(t, f) == [x \in (DOMAIN t) \ {f} |-> t[x]]

\* A path under which no directory can be created (mkdir raises OSError).
BadDir == "/dev/null/dir"
MkdirOk(path) == path # BadDir

\* The entries a task document may hold: load_tasks validates none of them.
TaskKinds ==
    {FullTask, [FullTask EXCEPT !["save_path"] = BadDir]}
    \cup {Without(FullTask, f) : f \in {"website", "search_prompt", "save_path"}}

TaskLists == UNION {[1..n -> TaskKinds] : n \in 0..MaxTasks}

Docs == {[parseable |-> FALSE, hasTasks |-> FALSE, tasks |-> << >>],
         [parseable |-> TRUE, hasTasks |-> FALSE, tasks |-> << >>]}
        \cup {[parseable |-> TRUE, hasTasks |-> TRUE, tasks |-> l] : l \in TaskLists}

\* What agent.run() can do: raise with a message, or return a value.
AgentErrors == {"timeout", "bad response"}
AgentHistories == {HNone, HSeq(<<Step4>>), HSeq(<<Step2>>)}

(***************************************************************************)
(* process_task                                                            *)
(***************************************************************************)
DefaultMaxAttempts == 3
BackoffDelay == 2

Return(rec) == [kind |-> "return", rec |-> rec]
Raise(msg) == [kind |-> "raise", msg |-> msg]
NoRet == [kind |-> "none"]

\* str(e) of a KeyError is the key in quotes.
KeyError(f) == "'" \o f \o "'"

\* Lines 50-51: the first failure of the two mkdir statements, "" when none.
SetupError(t) ==
    IF "save_path" \notin DOMAIN t THEN KeyError("save_path")
    ELSE IF ~MkdirOk(t["save_path"]) THEN "cannot create directory"
    ELSE IF "screenshot_dir" \notin DOMAIN t THEN KeyError("screenshot_dir")
    ELSE IF ~MkdirOk(t["screenshot_dir"]) THEN "cannot create directory"
    ELSE ""

\* Faulty variant: an absent search_prompt is not noticed.
DescriptionErrorSkipsPrompt(t) ==
    IF "website" \notin DOMAIN t THEN KeyError("website")
    ELSE ""

\* Lines 58-67: the first task field the f-strings read that is absent.
DescriptionError(t) ==
    IF "website" \notin DOMAIN t THEN KeyError("website")
    ELSE IF "search_prompt" \notin DOMAIN t THEN KeyError("search_prompt")
    ELSE IF "response_string" \notin DOMAIN t THEN KeyError("response_string")
    ELSE IF "screenshot_dir" \notin DOMAIN t THEN KeyError("screenshot_dir")
    ELSE IF "save_path" \notin DOMAIN t THEN KeyError("save_path")
    ELSE ""

\* Faulty variant: the loop makes one pass too many.
LoopCondOffByOne(a, k) == a <= k + 1

\* Line 56: while attempt <= max_attempts
LoopCond(a, k) == a <= k

\* Faulty variant: the handler never returns and leaves the exit to the while test.
LastAttemptNever(a, k) == FALSE

\* Faulty variant: the handler gives up one attempt early.
LastAttemptEarly(a, k) == a >= k - 1

\* Line 111: if attempt == max_attempts
LastAttempt(a, k) == a = k

\* Faulty variant: the closed browser is kept for the next attempt.
BrowserKept(b) == b

\* Line 109: browser = None (0 stands for None)
BrowserAfterFailure(b) == 0

\* Faulty variant: the record keeps the task without its output directories.
SuccessRecordTrimmedTask(t, a, h) ==
    [task |-> [f \in (DOMAIN t) \ {"save_path", "screenshot_dir"} |-> t[f]],
     success |-> TRUE, attempts |-> a, history |-> h]

\* Lines 98-103
SuccessRecord(t, a, h) ==
    [task |-> t, success |-> TRUE, attempts |-> a, history |-> h]

\* Faulty variant: the failure record carries no error text.
FailRecordNoError(t, a, msg) ==
    [task |-> t, success |-> FALSE, attempts |-> a]

\* Faulty variant: the failure record carries a fixed text, not the caught error.
FailRecordGenericError(t, a, msg) ==
    [task |-> t, success |-> FALSE, attempts |-> a,
     error |-> "Maximum attempts reached"]

\* Lines 112-117
FailRecord(t, a, msg) ==
    [task |-> t, success |-> FALSE, attempts |-> a, error |-> msg]

\* Lines 122-127
ExhaustedRecord(t, k) ==
    [task |-> t, success |-> FALSE, attempts |-> k,
     error |-> "Maximum attempts reached"]

\* Lines 50-54
PT_Setup ==
    /\ pc = "mkdir"
    /\ IF SetupError(task) # ""
       THEN /\ ret' = Raise(SetupError(task))
            /\ pc' = "pt_done"
            /\ UNCHANGED <<browser, attempt>>
       ELSE /\ browser' = 0
            /\ attempt' = 1
            /\ pc' = "loop"
            /\ UNCHANGED ret
    /\ UNCHANGED <<task, max_attempts, e, history, created, closeCalls,
                   closeFailures, runLog, events, runBrowsers, clock>>
    /\ UNCHANGED <<batchVars, serVars, concVars>>

\* Lines 56-89 (one pass up to the await of agent.run()), and 122-127.
PT_Loop ==
    /\ pc = "loop"
    /\ IF ~LoopCond(attempt, max_attempts)
       THEN /\ ret' = Return(ExhaustedRecord(task, max_attempts))
            /\ pc' = "pt_done"
            /\ UNCHANGED <<e, browser, created, closeCalls, events>>
       ELSE /\ events' = Append(events, "attempt")
            /\ UNCHANGED ret
            /\ IF DescriptionError(task) # ""
               THEN /\ e' = DescriptionError(task)
                    /\ pc' = "except"
                    /\ UNCHANGED <<browser, created, closeCalls>>
               ELSE /\ IF browser = 0
                       THEN /\ browser' = created + 1
                            /\ created' = created + 1
                            /\ closeCalls' = Append(closeCalls, 0)
                       ELSE UNCHANGED <<browser, created, closeCalls>>
                    /\ pc' = "run"
                    /\ UNCHANGED e
    /\ UNCHANGED <<task, max_attempts, attempt, history, closeFailures,
                   runLog, runBrowsers, clock>>
    /\ UNCHANGED <<batchVars, serVars, concVars>>

\* Line 92: history = await agent.run()
PT_Run ==
    /\ pc = "run"
    /\ \/ \E m \in AgentErrors :
            /\ e' = m
            /\ runLog' = Append(runLog, m)
            /\ pc' = "except"
            /\ UNCHANGED history
       \/ \E h \in AgentHistories :
            /\ history' = h
            /\ runLog' = Append(runLog, "ok")
            /\ pc' = "close"
            /\ UNCHANGED e
    /\ runBrowsers' = Append(runBrowsers, browser)
    /\ UNCHANGED <<task, max_attempts, attempt, browser, ret, created,
                   closeCalls, closeFailures, events, clock>>
    /\ UNCHANGED <<batchVars, serVars, concVars>>

\* Lines 94-103: close the browser, normalize, return; all inside the try.
PT_Success ==
    /\ pc = "close"
    /\ \E closeOk \in (IF browser # 0 THEN BOOLEAN ELSE {TRUE}) :
         /\ closeCalls' = IF browser # 0
                          THEN [closeCalls EXCEPT ![browser] = @ + 1]
                          ELSE closeCalls
         /\ closeFailures' = IF closeOk THEN closeFailures
                              ELSE closeFailures + 1
         /\ IF ~closeOk
            THEN /\ e' = "close failed"
                 /\ pc' = "except"
                 /\ UNCHANGED ret
            ELSE IF serialize_history(history).ok
                 THEN /\ ret' = Return(SuccessRecord(task, attempt,
                                         serialize_history(history).val))
                      /\ pc' = "pt_done"
                      /\ UNCHANGED e
                 ELSE /\ e' = serialize_history(history).err
                      /\ pc' = "except"
                      /\ UNCHANGED ret
    /\ UNCHANGED <<task, max_attempts, attempt, browser, history, created,
                   runLog, events, runBrowsers, clock>>
    /\ UNCHANGED <<batchVars, serVars, concVars>>

\* Lines 105-119: the except clause, up to the await of asyncio.sleep.
PT_Except ==
    /\ pc = "except"
    /\ IF "website" \notin DOMAIN task
       THEN \* the f-string of line 106 raises inside the handler
            /\ ret' = Raise(KeyError("website"))
            /\ pc' = "pt_done"
            /\ UNCHANGED <<browser, closeCalls, closeFailures, attempt>>
       ELSE \E closeOk \in (IF browser # 0 THEN BOOLEAN ELSE {TRUE}) :
            /\ closeCalls' = IF browser # 0
                             THEN [closeCalls EXCEPT ![browser] = @ + 1]
                             ELSE closeCalls
            /\ closeFailures' = IF closeOk THEN closeFailures
                                 ELSE closeFailures + 1
            /\ IF ~closeOk
               THEN /\ ret' = Raise("close failed")
                    /\ pc' = "pt_done"
                    /\ UNCHANGED <<browser, attempt>>
               ELSE /\ browser' = BrowserAfterFailure(browser)
                    /\ IF LastAttempt(attempt, max_attempts)
                       THEN /\ ret' = Return(FailRecord(task, attempt, e))
                            /\ pc' = "pt_done"
                            /\ UNCHANGED attempt
                       ELSE /\ attempt' = attempt + 1
                            /\ pc' = "sleep"
                            /\ UNCHANGED ret
    /\ UNCHANGED <<task, max_attempts, e, history, created, runLog, events,
                   runBrowsers, clock>>
    /\ UNCHANGED <<batchVars, serVars, concVars>>

\* Line 120: await asyncio.sleep(2)
PT_Sleep ==
    /\ pc = "sleep"
    /\ clock' = clock + BackoffDelay
    /\ events' = Append(events, "sleep")
    /\ pc' = "loop"
    /\ UNCHANGED <<task, max_attempts, attempt, browser, e, history, ret,
                   created, closeCalls, closeFailures, runLog, runBrowsers>>
    /\ UNCHANGED <<batchVars, serVars, concVars>>

\* An interrupt cancels the coroutine while it waits at line 92 or 120:
\* CancelledError is no Exception, so neither except clause catches it, and
\* the finally clause of process_all_tasks finds its own browser None.
PT_Cancel ==
    /\ pc \in {"run", "sleep"}
    /\ ret' = Raise("CancelledError")
    /\ pc' = "cancelled"
    /\ UNCHANGED <<task, max_attempts, attempt, browser, e, history, created,
                   closeCalls, closeFailures, runLog, events, runBrowsers,
                   clock>>
    /\ UNCHANGED <<batchVars, serVars, concVars>>

\* The frame of a call that has ended is gone.
LeaveCall ==
    /\ task' = FullTask
    /\ max_attempts' = DefaultMaxAttempts
    /\ attempt' = 0
    /\ browser' = 0
    /\ e' = ""
    /\ history' = HNone
    /\ ret' = NoRet
    /\ created' = 0
    /\ closeCalls' = << >>
    /\ closeFailures' = 0
    /\ runLog' = << >>
    /\ events' = << >>
    /\ runBrowsers' = << >>
    /\ clock' = 0

\* The locals and the history of a call at its entry.
EnterCall(t, k) ==
    /\ task' = t
    /\ max_attempts' = k
    /\ attempt' = 0
    /\ browser' = 0
    /\ e' = ""
    /\ history' = HNone
    /\ ret' = NoRet
    /\ created' = 0
    /\ closeCalls' = << >>
    /\ closeFailures' = 0
    /\ runLog' = << >>
    /\ events' = << >>
    /\ runBrowsers' = << >>
    /\ clock' = 0

(***************************************************************************)
(* load_tasks and process_all_tasks                                        *)
(***************************************************************************)
\* Lines 146-150: the record the orchestrator's except clause appends.
BatchFailRecord(t, msg) == [task |-> t, success |-> FALSE, error |-> msg]

Absent == [state |-> "absent", recs |-> << >>]
Partial(recs) == [state |-> "partial", recs |-> recs]

\* Faulty variant: the list is written newest record first.
WholeNewestFirst(recs) ==
    [state |-> "whole",
     recs |-> [i \in 1..Len(recs) |-> recs[Len(recs) + 1 - i]]]

Whole(recs) == [state |-> "whole", recs |-> recs]

\* Faulty variant: the list is built back to front.
LoadTasksReversed(d) ==
    IF ~d.parseable THEN Raised("JSONDecodeError")
    ELSE IF ~d.hasTasks THEN Raised(KeyError("tasks"))
    ELSE Ok([i \in 1..Len(d.tasks) |-> d.tasks[Len(d.tasks) + 1 - i]])

\* Faulty variant: a document without 'tasks' counts as an empty list.
LoadTasksLenient(d) ==
    IF ~d.parseable THEN Raised("JSONDecodeError")
    ELSE Ok(d.tasks)

\* Lines 16-20: json.load, then data['tasks'].
load_tasks(d) ==
    IF ~d.parseable THEN Raised("JSONDecodeError")
    ELSE IF ~d.hasTasks THEN Raised(KeyError("tasks"))
    ELSE Ok(d.tasks)

\* Lines 131-133
PAT_Load ==
    /\ pc = "load"
    /\ IF load_tasks(doc).ok
       THEN /\ tasks' = load_tasks(doc).val
            /\ results' = << >>
            /\ idx' = 1
            /\ pc' = "for"
       ELSE /\ pc' = "load_failed"
            /\ UNCHANGED <<tasks, results, idx>>
    /\ UNCHANGED <<doc, file, durable, started>>
    /\ UNCHANGED <<callVars, serVars, concVars>>

\* Lines 135-137 and 156: the next task of the for loop, or the return.
PAT_For ==
    /\ pc = "for"
    /\ IF idx > Len(tasks)
       THEN /\ pc' = "returned"
            /\ UNCHANGED <<started, callVars>>
       ELSE /\ EnterCall(tasks[idx], DefaultMaxAttempts)
            /\ started' = started \cup {idx}
            /\ pc' = "mkdir"
    /\ UNCHANGED <<doc, tasks, idx, results, file, durable, serVars, concVars>>

\* Lines 144-154: the except clause of the loop body (its print reads
\* task['website']), then the finally clause, whose browser is always None.
Handler(msg) ==
    IF "website" \notin DOMAIN tasks[idx]
    THEN /\ pc' = "aborted"
         /\ UNCHANGED <<results, idx>>
    ELSE /\ results' = Append(results, BatchFailRecord(tasks[idx], msg))
         /\ idx' = idx + 1
         /\ pc' = "for"

\* Lines 137-138: process_task has ended; append its result, or handle
\* what it raised.
PAT_AfterTask ==
    /\ pc = "pt_done"
    /\ idx \in 1..Len(tasks)
    /\ IF ret.kind = "return"
       THEN /\ results' = Append(results, ret.rec)
            /\ pc' = "open"
            /\ UNCHANGED idx
       ELSE Handler(ret.msg)
    /\ LeaveCall
    /\ UNCHANGED <<doc, tasks, file, durable, started, serVars, concVars>>

\* Line 141: open('task_results.json', 'w') truncates the file.
PAT_Open ==
    /\ pc = "open"
    /\ \E ok \in BOOLEAN :
         IF ok
         THEN /\ file' = Partial(<< >>)
              /\ pc' = "dump"
              /\ UNCHANGED <<results, idx>>
         ELSE /\ Handler("OSError")
              /\ UNCHANGED file
    /\ UNCHANGED <<doc, tasks, durable, started>>
    /\ UNCHANGED <<callVars, serVars, concVars>>

\* Line 142: json.dump writes the accumulated list, and the with block
\* closes the file; a failed write leaves some of the records behind.
PAT_Dump ==
    /\ pc = "dump"
    /\ \E n \in 0..Len(results) :
         IF n = Len(results)
         THEN /\ file' = Whole(results)
              /\ durable' = results
              /\ idx' = idx + 1
              /\ pc' = "for"
              /\ UNCHANGED results
         ELSE /\ file' = Partial(SubSeq(results, 1, n))
              /\ Handler("OSError")
              /\ UNCHANGED durable
    /\ UNCHANGED <<doc, tasks, started>>
    /\ UNCHANGED <<callVars, serVars, concVars>>

\* The process is terminated from outside while the batch is under way.
Running ==
    pc \in {"load", "for", "mkdir", "loop", "run", "close", "except", "sleep",
            "pt_done", "open", "dump"}

\* The memory of the process is gone; the document and the file remain.
Crash ==
    /\ Running
    /\ pc' = "crashed"
    /\ tasks' = << >>
    /\ results' = << >>
    /\ idx' = 1
    /\ LeaveCall
    /\ UNCHANGED <<doc, file, durable, started, serVars, concVars>>

(***************************************************************************)
(* Specifications                                                          *)
(***************************************************************************)
\* serialize_history has not been called on its own.
NotNormalized == [ok |-> FALSE, err |-> "not called"]

\* No process_task calls have been set running side by side.
NoCalls ==
    /\ calls = << >>
    /\ instances = 0
    /\ openB = {}

InitSer ==
    /\ normalized = NotNormalized
    /\ renormalized = NotNormalized
    /\ NoCalls

InitCall ==
    /\ task = FullTask
    /\ max_attempts = DefaultMaxAttempts
    /\ attempt = 0
    /\ browser = 0
    /\ e = ""
    /\ history = HNone
    /\ ret = NoRet
    /\ created = 0
    /\ closeCalls = << >>
    /\ closeFailures = 0
    /\ runLog = << >>
    /\ events = << >>
    /\ runBrowsers = << >>
    /\ clock = 0

\* process_all_tasks(tasks_file) is about to run.
Init ==
    /\ doc \in Docs
    /\ tasks = << >>
    /\ idx = 1
    /\ results = << >>
    /\ file = Absent
    /\ durable = << >>
    /\ started = {}
    /\ pc = "load"
    /\ InitCall
    /\ InitSer

ProcessTask ==
    \/ PT_Setup
    \/ PT_Loop
    \/ PT_Run
    \/ PT_Success
    \/ PT_Except
    \/ PT_Sleep
    \/ PT_Cancel

Next ==
    \/ PAT_Load
    \/ PAT_For
    \/ ProcessTask
    \/ PAT_AfterTask
    \/ PAT_Open
    \/ PAT_Dump
    \/ Crash

Spec == Init /\ [][Next]_vars

\* process_task(task, max_attempts) has just been called on its own.
InitTask ==
    /\ doc = [parseable |-> TRUE, hasTasks |-> TRUE, tasks |-> << >>]
    /\ tasks = << >>
    /\ idx = 1
    /\ results = << >>
    /\ file = Absent
    /\ durable = << >>
    /\ started = {}
    /\ pc = "mkdir"
    /\ task \in TaskKinds
    /\ max_attempts \in 0..MaxK
    /\ attempt = 0
    /\ browser = 0
    /\ e = ""
    /\ history = HNone
    /\ ret = NoRet
    /\ created = 0
    /\ closeCalls = << >>
    /\ closeFailures = 0
    /\ runLog = << >>
    /\ events = << >>
    /\ runBrowsers = << >>
    /\ clock = 0
    /\ InitSer

NextTask == ProcessTask

SpecTask == InitTask /\ [][NextTask]_vars

\* serialize_history(history) is called on its own, then on its own result.
SER_Normalize ==
    /\ pc = "ser"
    /\ normalized' = serialize_history(history)
    /\ pc' = "ser_done"
    /\ UNCHANGED <<batchVars, callVars, renormalized, concVars>>

SER_Renormalize ==
    /\ pc = "ser_done"
    /\ normalized.ok
    /\ renormalized' = serialize_history(AsHistory(normalized.val))
    /\ pc' = "ser_twice"
    /\ UNCHANGED <<batchVars, callVars, normalized, concVars>>

InitNormalizer ==
    /\ doc = [parseable |-> TRUE, hasTasks |-> TRUE, tasks |-> << >>]
    /\ tasks = << >>
    /\ idx = 1
    /\ results = << >>
    /\ file = Absent
    /\ durable = << >>
    /\ started = {}
    /\ pc = "ser"
    /\ task = FullTask
    /\ max_attempts = DefaultMaxAttempts
    /\ attempt = 0
    /\ browser = 0
    /\ e = ""
    /\ history \in HistInputs
    /\ ret = NoRet
    /\ created = 0
    /\ closeCalls = << >>
    /\ closeFailures = 0
    /\ runLog = << >>
    /\ events = << >>
    /\ runBrowsers = << >>
    /\ clock = 0
    /\ InitSer

NextNormalizer ==
    \/ SER_Normalize
    \/ SER_Renormalize

SpecNormalizer == InitNormalizer /\ [][NextNormalizer]_vars

(***************************************************************************)
(* Several process_task calls run side by side (as asyncio.gather would   *)
(* run them): each has its own frame; a step of a call runs from one      *)
(* await to the next. The frame keeps the locals that decide what happens *)
(* to browsers; created counts the Browser objects the call constructed.   *)
(***************************************************************************)
Frame(t, k) ==
    [task |-> t, max_attempts |-> k, pc |-> "mkdir", attempt |-> 0,
     browser |-> 0, created |-> 0]

\* Faulty variant: one module-level Browser serves every call.
SharedBrowser(c, n) == 1

\* Line 75: Browser(config=browser_config) constructs a new object, the
\* (n+1)-th that call c constructs; distinct constructions get distinct
\* numbers.
NewBrowser(c, n) == n * NCalls + c

\* browser.close() has been called on b (0 is None: no call).
Closed(b) == openB \ {b}

\* Lines 50-54
CT_Setup(c) ==
    /\ calls[c].pc = "mkdir"
    /\ calls' = [calls EXCEPT ![c] =
                   IF SetupError(@.task) # ""
                   THEN [@ EXCEPT !.pc = "pt_done"]
                   ELSE [@ EXCEPT !.browser = 0, !.attempt = 1, !.pc = "loop"]]
    /\ UNCHANGED <<instances, openB>>

\* Lines 56-89 and 122-127
CT_Loop(c) ==
    /\ calls[c].pc = "loop"
    /\ IF ~LoopCond(calls[c].attempt, calls[c].max_attempts)
       THEN /\ calls' = [calls EXCEPT ![c].pc = "pt_done"]
            /\ UNCHANGED <<instances, openB>>
       ELSE IF DescriptionError(calls[c].task) # ""
       THEN /\ calls' = [calls EXCEPT ![c].pc = "except"]
            /\ UNCHANGED <<instances, openB>>
       ELSE IF calls[c].browser = 0
       THEN /\ calls' = [calls EXCEPT
                          ![c].browser = NewBrowser(c, calls[c].created),
                          ![c].created = @ + 1,
                          ![c].pc = "run"]
            /\ instances' = instances + 1
            /\ openB' = openB \cup {NewBrowser(c, calls[c].created)}
       ELSE /\ calls' = [calls EXCEPT ![c].pc = "run"]
            /\ UNCHANGED <<instances, openB>>

\* Line 92
CT_Run(c) ==
    /\ calls[c].pc = "run"
    /\ \/ calls' = [calls EXCEPT ![c].pc = "except"]
       \/ calls' = [calls EXCEPT ![c].pc = "close"]
    /\ UNCHANGED <<instances, openB>>

\* Lines 94-103; history is the value agent.run() returned.
CT_Success(c) ==
    /\ calls[c].pc = "close"
    /\ openB' = Closed(calls[c].browser)
    /\ \E closeOk \in BOOLEAN : \E history_c \in AgentHistories :
         calls' = [calls EXCEPT ![c].pc =
                      IF closeOk /\ serialize_history(history_c).ok
                      THEN "pt_done" ELSE "except"]
    /\ UNCHANGED instances

\* Lines 105-119
CT_Except(c) ==
    /\ calls[c].pc = "except"
    /\ IF "website" \notin DOMAIN calls[c].task
       THEN /\ calls' = [calls EXCEPT ![c].pc = "pt_done"]
            /\ UNCHANGED openB
       ELSE /\ openB' = Closed(calls[c].browser)
            /\ \E closeOk \in (IF calls[c].browser # 0 THEN BOOLEAN
                                ELSE {TRUE}) :
                 calls' = [calls EXCEPT ![c] =
                    IF ~closeOk THEN [@ EXCEPT !.pc = "pt_done"]
                    ELSE IF LastAttempt(@.attempt, @.max_attempts)
                    THEN [@ EXCEPT !.browser = BrowserAfterFailure(@),
                                   !.pc = "pt_done"]
                    ELSE [@ EXCEPT !.browser = BrowserAfterFailure(@),
                                   !.attempt = @ + 1, !.pc = "sleep"]]
    /\ UNCHANGED instances

\* Line 120
CT_Sleep(c) ==
    /\ calls[c].pc = "sleep"
    /\ calls' = [calls EXCEPT ![c].pc = "loop"]
    /\ UNCHANGED <<instances, openB>>

\* The call is cancelled while it waits at line 92 or 120.
CT_Cancel(c) ==
    /\ calls[c].pc \in {"run", "sleep"}
    /\ calls' = [calls EXCEPT ![c].pc = "cancelled"]
    /\ UNCHANGED <<instances, openB>>

InitConcurrent ==
    /\ doc = [parseable |-> TRUE, hasTasks |-> TRUE, tasks |-> << >>]
    /\ tasks = << >>
    /\ idx = 1
    /\ results = << >>
    /\ file = Absent
    /\ durable = << >>
    /\ started = {}
    /\ pc = "gather"
    /\ InitCall
    /\ normalized = NotNormalized
    /\ renormalized = NotNormalized
    /\ calls \in [1..NCalls -> {Frame(t, DefaultMaxAttempts) : t \in TaskKinds}]
    /\ instances = 0
    /\ openB = {}

NextConcurrent ==
    /\ \E c \in 1..NCalls :
         \/ CT_Setup(c)
         \/ CT_Loop(c)
         \/ CT_Run(c)
         \/ CT_Success(c)
         \/ CT_Except(c)
         \/ CT_Sleep(c)
         \/ CT_Cancel(c)
    /\ UNCHANGED <<batchVars, callVars, serVars, pc>>

SpecConcurrent == InitConcurrent /\ [][NextConcurrent]_vars

(***************************************************************************)
(* Properties                                                              *)
(***************************************************************************)
Range(seq) == {seq[i] : i \in 1..Len(seq)}

IsPrefix(a, b) == Len(a) <= Len(b) /\ \A i \in 1..Len(a) : a[i] = b[i]

AgentFailures == {i \in 1..Len(runLog) : runLog[i] # "ok"}
Attempts == {i \in 1..Len(events) : events[i] = "attempt"}
Sleeps == {i \in 1..Len(events) : events[i] = "sleep"}

\* C1: process_all_tasks returns, for every loaded list of N tasks, a list of
\* exactly N records, the i-th being the record of the i-th task.
C1_OneRecordPerTask ==
    /\ pc # "aborted"
    /\ pc = "returned" =>
         /\ Len(results) = Len(tasks)
         /\ \A i \in 1..Len(results) : results[i].task = tasks[i]

\* C2: one process_task call runs the agent at most max_attempts times, and
\* the attempts value of the record it returns never exceeds max_attempts.
C2_RetryBound ==
    /\ Len(runLog) <= max_attempts
    /\ ret.kind = "return" => ret.rec.attempts <= max_attempts

C2_Witness ==
    /\ pc = "pt_done"
    /\ max_attempts >= 2
    /\ Len(runLog) = max_attempts
    /\ ret.kind = "return"
    /\ ret.rec.attempts = max_attempts

\* C3: a failed task never aborts the batch: when process_all_tasks ends,
\* every task of the list has been started.
C3_FailureNeverAbortsBatch ==
    pc \in {"returned", "aborted"} => started = 1..Len(tasks)

\* C4: when the loop iteration of task i has ended, with any outcome,
\* task_results.json holds exactly i records, those of tasks 1..i in order.
C4_FileHoldsProcessedTasks ==
    (pc \in {"for", "returned"} /\ idx > 1) =>
        /\ file.state = "whole"
        /\ Len(file.recs) = idx - 1
        /\ \A j \in 1..Len(file.recs) : file.recs[j].task = tasks[j]

\* C5: wherever the process is terminated, every record that had been
\* persisted is still in task_results.json.
C5_PersistedRecordsSurviveCrash ==
    pc = "crashed" => IsPrefix(durable, file.recs)

\* C6: in every record produced, success is true exactly when the record
\* has a history and no error, and false exactly when it has an error and
\* no history.
ProducedRecords ==
    Range(results) \cup (IF ret.kind = "return" THEN {ret.rec} ELSE {})

C6_SuccessIffHistory ==
    \A r \in ProducedRecords :
        /\ r.success <=> ("history" \in DOMAIN r /\ "error" \notin DOMAIN r)
        /\ ~r.success <=> ("error" \in DOMAIN r /\ "history" \notin DOMAIN r)

C6_Witness ==
    /\ pc = "returned"
    /\ \E r \in Range(results) : r.success /\ r.attempts = 2
    /\ \E r \in Range(results) : ~r.success /\ "attempts" \in DOMAIN r
    /\ \E r \in Range(results) : ~r.success /\ "attempts" \notin DOMAIN r

\* C7: when the agent fails on attempts 1..j-1 and succeeds on attempt j,
\* the agent is not run again and process_task returns a record with
\* success = true, attempts = j and the normalized history of that run.
\* Stated for the calls in which every browser.close() returns normally.
C7_FirstSuccessReturns ==
    \A j \in 1..Len(runLog) :
        (runLog[j] = "ok" /\ closeFailures = 0) =>
            /\ j = Len(runLog)
            /\ pc = "pt_done" =>
                 /\ ret.kind = "return"
                 /\ ret.rec.success
                 /\ ret.rec.attempts = j
                 /\ serialize_history(history).ok
                 /\ ret.rec.history = serialize_history(history).val

\* C8: when the agent fails on each of the max_attempts attempts, the record
\* returned has success = false, attempts = max_attempts and the message of
\* the last failure as its error.
C8_ExhaustedCarriesLastError ==
    (/\ pc = "pt_done"
     /\ ret.kind = "return"
     /\ max_attempts >= 1
     /\ Len(runLog) = max_attempts
     /\ AgentFailures = 1..max_attempts) =>
        /\ ~ret.rec.success
        /\ ret.rec.attempts = max_attempts
        /\ "error" \in DOMAIN ret.rec
        /\ ret.rec.error = runLog[max_attempts]

C8_Witness ==
    /\ pc = "pt_done"
    /\ ret.kind = "return"
    /\ max_attempts >= 2
    /\ AgentFailures = 1..max_attempts
    /\ runLog[1] # runLog[max_attempts]
    /\ ret.rec.error = runLog[max_attempts]

\* C9: a 2-unit delay lies between every two consecutive attempts and
\* nowhere else: attempts and delays alternate, starting and ending with an
\* attempt, so a call that ends after a attempts has made a - 1 delays.
C9_BackoffBetweenAttempts ==
    /\ \A i \in 1..Len(events) :
         events[i] = (IF i % 2 = 1 THEN "attempt" ELSE "sleep")
    /\ clock = 2 * Cardinality(Sleeps)
    /\ pc = "pt_done" /\ Attempts # {} =>
         /\ events[Len(events)] = "attempt"
         /\ Cardinality(Sleeps) = Cardinality(Attempts) - 1

C9_Witness ==
    /\ pc = "pt_done"
    /\ Cardinality(Attempts) = 3
    /\ Cardinality(Sleeps) = 2
    /\ clock = 4

\* C10: a process_task call that ends, ends by returning a result record.
\* Stated for the tasks that carry all five fields.
C10_EndsByReturningRecord ==
    (pc = "pt_done" /\ DOMAIN task = DOMAIN FullTask) => ret.kind = "return"

\* C11: after a failed attempt the browser it used has been closed and
\* dropped before the backoff and the next attempt, and every agent.run() of a
\* call gets a browser that no earlier attempt of the call used and that has
\* never been closed.
C11_FailedBrowserNeverReused ==
    /\ \A i \in 1..Len(runBrowsers) : \A j \in 1..Len(runBrowsers) :
         i < j => runBrowsers[i] # runBrowsers[j]
    /\ pc = "sleep" =>
         /\ browser = 0
         /\ \A b \in 1..created : closeCalls[b] >= 1
    /\ pc = "run" =>
         /\ browser \in 1..created
         /\ closeCalls[browser] = 0
         /\ \A b \in 1..created : b # browser => closeCalls[b] >= 1

C11_Witness ==
    /\ pc = "close"
    /\ runBrowsers = <<1, 2, 3>>
    /\ runLog[1] # "ok"
    /\ runLog[2] = "ok"
    /\ closeCalls[1] = 1
    /\ closeCalls[2] = 2

\* C12: when a directory of the task cannot be created, the agent is never
\* run, no attempt is made, and process_task yields a record with
\* success = false.
C12_SetupFailureYieldsFailedRecord ==
    (/\ pc = "pt_done"
     /\ "save_path" \in DOMAIN task
     /\ ~MkdirOk(task["save_path"])) =>
        /\ runLog = << >>
        /\ events = << >>
        /\ ret.kind = "return"
        /\ ~ret.rec.success

\* C13: serialize_history returns a list for every value it is given; it
\* never raises.
C13_NormalizerTotal ==
    pc \in {"ser_done", "ser_twice"} => normalized.ok

FourTuples(h) ==
    /\ h.k = "seq"
    /\ \A i \in 1..Len(h.items) :
         h.items[i].k = "tuple" /\ Len(h.items[i].vals) = 4

\* C14: a sequence of 4-tuples gives a list of the same length whose i-th
\* entry holds the text of the four components of the i-th tuple, in their
\* order; None and the empty sequence give the empty list.
C14_FourTuplesInOrder ==
    pc \in {"ser_done", "ser_twice"} =>
        /\ (history = HNone \/ history = HSeq(<< >>)) => normalized = Ok(<< >>)
        /\ FourTuples(history) =>
             /\ normalized.ok
             /\ Len(normalized.val) = Len(history.items)
             /\ \A i \in 1..Len(history.items) :
                  normalized.val[i] =
                      [action |-> Str(history.items[i].vals[1]),
                       input |-> Str(history.items[i].vals[2]),
                       output |-> Str(history.items[i].vals[3]),
                       timestamp |-> Str(history.items[i].vals[4])]

C14_Witness ==
    /\ pc = "ser_done"
    /\ history = HSeq(<<Step4, Step4b>>)
    /\ normalized.ok
    /\ normalized.val =
         <<[action |-> "click", input |-> "1", output |-> "None",
            timestamp |-> "t0"],
           [action |-> "type", input |-> "q", output |-> "7",
            timestamp |-> "None"]>>

\* C15: normalizing the result of a normalization gives that same result.
C15_NormalizerIdempotent ==
    pc = "ser_twice" => renormalized = normalized

\* C16: an element that is a record with attributes gives an entry holding
\* the text of each of action, input, output and timestamp it has, "unknown"
\* for an action it lacks and "" for any other field it lacks; a sequence of
\* such records never makes serialize_history raise.
Field(item, name, missing) ==
    IF name \in DOMAIN item.attrs THEN Str(item.attrs[name]) ELSE missing

C16_RecordFieldsByName ==
    (pc \in {"ser_done", "ser_twice"} /\ history.k = "seq") =>
        /\ (\A i \in 1..Len(history.items) : history.items[i].k = "obj")
             => normalized.ok
        /\ normalized.ok =>
             \A i \in 1..Len(history.items) :
                history.items[i].k = "obj" =>
                    normalized.val[i] =
                        [action |-> Field(history.items[i], "action", "unknown"),
                         input |-> Field(history.items[i], "input", ""),
                         output |-> Field(history.items[i], "output", ""),
                         timestamp |-> Field(history.items[i], "timestamp", "")]

C16_Witness ==
    /\ pc = "ser_done"
    /\ history = HSeq(<<ObjPartial, ObjFull>>)
    /\ normalized.ok
    /\ normalized.val =
         <<[action |-> "unknown", input |-> "q", output |-> "",
            timestamp |-> "5"],
           [action |-> "go", input |-> "url", output |-> "None",
            timestamp |-> "3"]>>

LoadRefused == pc \in {"load", "load_failed", "crashed"}

\* C17: for a parseable document with a 'tasks' collection, load_tasks gives
\* exactly the entries of the collection, in their order and unchanged.
C17_LoadReturnsEntries ==
    (doc.parseable /\ doc.hasTasks /\ pc \notin {"load", "crashed"}) =>
        /\ pc # "load_failed"
        /\ tasks = doc.tasks

C17_Witness ==
    /\ pc = "for"
    /\ idx = 1
    /\ Len(doc.tasks) = 2
    /\ doc.tasks[1] # doc.tasks[2]
    /\ tasks = doc.tasks

NamesAbsentField(msg) ==
    \E f \in DOMAIN FullTask \ DOMAIN task : msg = "'" \o f \o "'"

C19_BadDocumentAbortsRun ==
    (~doc.parseable \/ ~doc.hasTasks) =>
        /\ LoadRefused
        /\ started = {}
        /\ runLog = << >>
        /\ created = 0
        /\ results = << >>
        /\ file = Absent

C19_Witness ==
    /\ pc = "load_failed"
    /\ doc.parseable
    /\ ~doc.hasTasks
    /\ file = Absent

\* C20: when an interrupt arrives during the agent invocation or the
\* backoff sleep, every browser the abandoned call created has been closed.
C20_CancelReleasesBrowser ==
    pc = "cancelled" => \A b \in 1..created : closeCalls[b] >= 1

\* The positions of process_all_tasks at which the call of process_task for
\* tasks[idx] is under way.
InCall == pc \in {"mkdir", "loop", "run", "close", "except", "sleep"}

\* C21: at every point of the batch the list in task_results.json is a
\* prefix of the results list, which only grows up to the return; every
\* record in the file is of a task whose call has ended; and while the call
\* for task i is under way, every earlier task has been started and has its
\* record, and no later task has been started.
C21_FilePrefixInInputOrder ==
    /\ [](pc # "crashed" =>
            /\ IsPrefix(file.recs, results)
            /\ \A j \in 1..Len(file.recs) :
                 \E i \in started :
                    /\ file.recs[j].task = tasks[i]
                    /\ i < idx \/ (i = idx /\ ~InCall /\ pc # "pt_done")
            /\ InCall =>
                 /\ started = 1..idx
                 /\ Len(results) >= idx - 1
                 /\ \A i \in 1..(idx - 1) :
                      \E j \in 1..Len(results) : results[j].task = tasks[i])
    /\ [][pc' # "crashed" => IsPrefix(results, results')]_vars

C21_Witness ==
    /\ pc = "returned"
    /\ Len(results) = 2
    /\ results[1] # results[2]
    /\ file = Whole(results)

\* The states of the runner's state machine, read off a call.
Succeeded == pc = "pt_done" /\ ret.kind = "return" /\ ret.rec.success
Failed == pc = "pt_done" /\ ret.kind = "return" /\ ~ret.rec.success

\* An attempt after the first follows a failure and a backoff, within the
\* attempts allowed; an attempt that is not the last allowed one never ends
\* the call as Failed.
RetriesOnlyAfterFailure ==
    /\ Cardinality(Attempts) <= max_attempts
    /\ Cardinality(Attempts) >= 2 => e # ""
    /\ Failed => Cardinality(Attempts) = max_attempts

\* C22: for every max_attempts the call enters Attempting before it reaches
\* Succeeded or Failed, retries only after a failure with attempts left, and
\* reaches Failed only when the attempts are used up.
C22_RunnerStateMachine ==
    /\ (Succeeded \/ Failed) => Attempts # {}
    /\ RetriesOnlyAfterFailure

\* C22 as amended: the above for max_attempts >= 1; with max_attempts < 1
\* the call goes from Pending to Failed without an attempt, with attempts =
\* max_attempts and the error "Maximum attempts reached".
C22_RunnerStateMachineFromOne ==
    /\ max_attempts >= 1 => ((Succeeded \/ Failed) => Attempts # {})
    /\ RetriesOnlyAfterFailure
    /\ (max_attempts < 1 /\ pc = "pt_done" /\ ret.kind = "return") =>
         /\ events = << >>
         /\ runLog = << >>
         /\ ret.rec = [task |-> task, success |-> FALSE,
                       attempts |-> max_attempts,
                       error |-> "Maximum attempts reached"]

C22_Witness ==
    /\ Failed
    /\ max_attempts = 3
    /\ Cardinality(Attempts) = 3
    /\ Len(runLog) = 3

\* All entries of the document carry the five task fields.
AllFieldsPresent ==
    \A i \in 1..Len(doc.tasks) : DOMAIN doc.tasks[i] = DOMAIN FullTask

\* C24: in the concurrent mode the runners of all tasks are launched before
\* any result is collected, nothing is written to task_results.json before
\* all runners have finished, and the list returned holds exactly one record
\* per task. Stated for the documents whose entries carry all five fields.
C24_ConcurrentModeCollectsAtEnd ==
    (AllFieldsPresent /\ pc \notin {"load", "load_failed", "crashed"}) =>
        /\ results # << >> => started = 1..Len(tasks)
        /\ file # Absent => ~InCall /\ idx >= Len(tasks)
        /\ pc = "returned" => Len(results) = Len(tasks)

\* C25: a loaded task is never modified: the list iterated is the list
\* loaded, the task a call works on is the entry of the list at every point
\* of the call, and the task of every record is that entry, record after
\* record in the order of the list.
C25_TaskNeverModified ==
    pc \notin {"load", "load_failed", "crashed"} =>
        /\ tasks = doc.tasks
        /\ (InCall \/ pc \in {"pt_done", "cancelled"}) => task = tasks[idx]
        /\ ret.kind = "return" => ret.rec.task = tasks[idx]
        /\ \A j \in 1..Len(results) :
             \E i \in started :
                /\ results[j].task = tasks[i]
                /\ j >= i

C25_Witness ==
    /\ pc = "returned"
    /\ Len(tasks) = 2
    /\ tasks[1] # tasks[2]
    /\ Len(results) = 2
    /\ results[1].success /\ results[1].attempts = 2
    /\ results[1].task = doc.tasks[1]
    /\ ~results[2].success /\ "attempts" \in DOMAIN results[2]
    /\ results[2].task = doc.tasks[2]

\* C26: every browser a call creates is closed exactly once: none is
\* closed twice, and none is left unclosed when the call ends. Stated for
\* the calls in which every browser.close() returns normally.
C26_BrowserClosedExactlyOnce ==
    closeFailures = 0 =>
        /\ \A b \in 1..created : closeCalls[b] <= 1
        /\ pc = "pt_done" => \A b \in 1..created : closeCalls[b] = 1

\* C27: once an agent.run() of a call has returned normally, the agent is
\* not run again in that call.
C27_NoRunAfterSuccessfulRun ==
    \A i \in 1..Len(runLog) : \A j \in 1..Len(runLog) :
        (i < j) => runLog[i] # "ok"

\* C28: when the runner has returned and its record is in results, the
\* iteration ends, whether or not task_results.json could be rewritten,
\* leaving results as it is: that one record, nothing replaced or added.
C28_WriteFailureKeepsRunnerRecord ==
    [][(pc \in {"open", "dump"} /\ pc' \in {"dump", "for", "aborted"})
          => results' = results]_vars

\* A call that has made a step and has not returned or raised.
Underway(c) == calls[c].pc \notin {"mkdir", "pt_done"}

\* C23: no two calls ever hold the same Browser object, the browser of a
\* running agent is open and held by that call alone, and every open browser
\* is held by a call that is under way: with calls one after the other at
\* most one browser is open at any time.
C23_BrowserOwnedByOneAttempt ==
    /\ \A c \in DOMAIN calls : \A d \in DOMAIN calls :
         (c # d /\ calls[c].browser # 0) => calls[c].browser # calls[d].browser
    /\ \A c \in DOMAIN calls :
         calls[c].pc = "run" => calls[c].browser \in openB
    /\ openB \subseteq {calls[c].browser : c \in {d \in DOMAIN calls : Underway(d)}}
    /\ Cardinality(openB) <= Cardinality({c \in DOMAIN calls : Underway(c)})

C23_Witness ==
    /\ calls # << >>
    /\ calls[1].pc = "run" /\ calls[1].attempt = 2
    /\ calls[2].pc = "run" /\ calls[2].attempt = 1
    /\ calls[1].created = 2
    /\ calls[2].created = 1
    /\ instances = 3
    /\ openB = {calls[1].browser, calls[2].browser}
    /\ Cardinality(openB) = 2

====
